---- MODULE Spec2Model ----
(***************************************************************************)
(* Model of main.py: the webinar registration endpoint (register_webinar), *)
(* the Registration table, and the Celery task check_and_send_reminders    *)
(* that walks the upcoming registrations and enqueues                      *)
(* send_whatsapp_reminder for the 3/2/1-day boundaries.                    *)
(*                                                                         *)
(* Time is counted in slots: an instant is a natural number, SlotsPerDay   *)
(* slots make one calendar day, Date(t) is datetime.date() and TimeOf(t)   *)
(* is datetime.time().                                                     *)
(***************************************************************************)
EXTENDS Integers, Sequences, FiniteSets, TLC

\* ---- bounds -------------------------------------------------------------
MaxRegs == 2
MaxDay == 3
SlotsPerDay == 2
MaxQueue == 3
MaxTasks == 2

\* ---- time ---------------------------------------------------------------
MaxInstant == (MaxDay + 1) * SlotsPerDay - 1
Days == 0..MaxDay
Slots == 0..(SlotsPerDay - 1)
Date(t) == t \div SlotsPerDay
TimeOf(t) == t % SlotsPerDay
combine(d, s) == d * SlotsPerDay + s

\* ---- strings and strptime ----------------------------------------------
\* A string is modelled by the one format it is written in and the value it
\* denotes; Garbage matches no format; Absent is a key missing from the JSON;
\* Null is the JSON null.
DateFmt == "%Y-%m-%d"
TimeFmt == "%H:%M"
Garbage == [fmt |-> "garbage", val |-> 0]
Absent == [fmt |-> "absent", val |-> 0]
Null == [fmt |-> "null", val |-> 0]
DateStr(d) == [fmt |-> DateFmt, val |-> d]
TimeStr(s) == [fmt |-> TimeFmt, val |-> s]
\* A datetime.date and a datetime.time object: values that are no text.
DateObj(d) == [fmt |-> "date", val |-> d]
TimeObj(s) == [fmt |-> "time", val |-> s]
ValueError == [err |-> "ValueError"]
KeyError == [err |-> "KeyError"]
IsError(x) == "err" \in DOMAIN x

\* datetime.strptime(s, fmt): the parsed value, or ValueError when the text
\* is not written in fmt.
strptime(s, fmt) ==
  IF s.fmt = fmt THEN [val |-> s.val] ELSE ValueError

Text(t) == [fmt |-> "text", val |-> t]
IsAbsent(x) == x.fmt = "absent"

\* Variant of data[key] used to test the claims: data.get(key), which gives
\* None for a missing key and raises nothing.
GetItemLenient(data, key) == [val |-> data[key]]

\* data[key]: KeyError for a missing key.
GetItem(data, key) ==
  IF IsAbsent(data[key]) THEN KeyError ELSE [val |-> data[key]]

\* data.get(key, default)
GetOr(data, key, default) ==
  IF IsAbsent(data[key]) THEN default ELSE data[key].val

\* ---- the Registration table --------------------------------------------
Phones == {"p1"}
Names == {"n1"}
Boundaries == {3, 2, 1}
DefaultTemplate == "Reminder: webinar in {days} day(s) on {date} at {time}."
DefaultName == "user"

FlagOf(b) == IF b = 3 THEN "sent_3d" ELSE IF b = 2 THEN "sent_2d" ELSE "sent_1d"

\* Variant of the column defaults used to test the claims: the flags start set.
RegistrationDefaultTrue(id, phone, webinar_dt, template, name) ==
  [id |-> id, phone |-> phone, webinar_dt |-> webinar_dt,
   message_template |-> template, name |-> name,
   sent_3d |-> TRUE, sent_2d |-> TRUE, sent_1d |-> TRUE]

\* class Registration: a new row, the three flags at their default False.
Registration(id, phone, webinar_dt, template, name) ==
  [id |-> id, phone |-> phone, webinar_dt |-> webinar_dt,
   message_template |-> template, name |-> name,
   sent_3d |-> FALSE, sent_2d |-> FALSE, sent_1d |-> FALSE]

HasAttr(obj, a) == a \in DOMAIN obj

VARIABLES
  regs,      \* the Registration table, regs[i].id = i (autoincrement key)
  clock,     \* datetime.utcnow()
  resp,      \* the last HTTP response of register_webinar
  queue,     \* send_whatsapp_reminder messages accepted by .delay(), in order
  cyc,       \* per task execution of check_and_send_reminders: its position,
             \* its now/today, the rows still to visit and its db session
  beat,      \* the beat schedule has fired for the current instant
  disp,      \* the Celery worker on send_whatsapp_reminder: how many messages
             \* of the queue it has run, the outbound calls it has issued,
             \* what the last run logged, whether an exception left a run
  last       \* the check_and_send_reminders that ended last at this instant:
             \* how it ended, the rows its loop body was entered for, the
             \* (row, boundary) pairs it marked without persisting them, and
             \* how many executions have ended at this instant (up to 2)

vars == <<regs, clock, resp, queue, cyc, beat, disp, last>>

Workers == {1, 2}
Ids == 1..Len(regs)

NoResp == [code |-> 0, id |-> 0]
IdleCyc == [pc |-> "idle", now |-> 0, today |-> 0, todo |-> {},
            loaded |-> <<>>, session |-> <<>>, seen |-> {}, sends |-> <<>>]
NoLast == [outcome |-> "none", seen |-> {}, lost |-> {}, runs |-> 0]
IdleDisp == [taken |-> 0, calls |-> <<>>, logged |-> "none", escaped |-> FALSE]

Init ==
  /\ regs = <<>>
  /\ clock = 0
  /\ resp = NoResp
  /\ queue = <<>>
  /\ cyc = [w \in Workers |-> IdleCyc]
  /\ beat = FALSE
  /\ disp = IdleDisp
  /\ last = NoLast

\* ---- register_webinar ---------------------------------------------------
Requests ==
  [webinar_date : {DateStr(d) : d \in Days} \cup {Garbage, Absent},
   webinar_time : {TimeStr(s) : s \in Slots} \cup {Garbage, Absent},
   phone : {Text(p) : p \in Phones} \cup {Absent, Null},
   name : {Text(n) : n \in Names},
   message_template : {Absent}]

\* The try block of register_webinar: the parsed fields, or the exception.
ParseRequest(data) ==
  LET dk == GetItem(data, "webinar_date")
      wd == IF IsError(dk) THEN dk ELSE strptime(dk.val, DateFmt)
      tk == GetItem(data, "webinar_time")
      wt == IF IsError(tk) THEN tk ELSE strptime(tk.val, TimeFmt)
      ph == GetItem(data, "phone")
  IN  IF IsError(wd) THEN wd
      ELSE IF IsError(wt) THEN wt
      ELSE IF IsError(ph) THEN ph
      ELSE [phone |-> ph.val,
            webinar_dt |-> combine(wd.val, wt.val),
            name |-> GetOr(data, "name", DefaultName),
            template |-> GetOr(data, "message_template", DefaultTemplate)]

\* Lines 136-156: the row is added and committed, its id is returned.
Register(data) ==
  /\ Len(regs) < MaxRegs
  /\ LET p == ParseRequest(data) IN
       /\ ~IsError(p)
       /\ p.phone.fmt = "text"
       /\ LET id == Len(regs) + 1 IN
            /\ regs' = Append(regs, Registration(id, p.phone.val, p.webinar_dt,
                                                 p.template, p.name))
            /\ resp' = [code |-> 201, id |-> id]
  /\ UNCHANGED <<clock, queue, cyc, beat, last, disp>>

\* Lines 133-134: an exception in the try block is answered with 400.
RegisterReject(data) ==
  /\ IsError(ParseRequest(data))
  /\ resp' = [code |-> 400, id |-> 0]
  /\ UNCHANGED <<regs, clock, queue, cyc, beat, last, disp>>

\* Lines 136-143 with a phone that is no text: phone is nullable=False, the
\* commit raises IntegrityError, no row is stored and the request ends in 500.
RegisterFail(data) ==
  /\ LET p == ParseRequest(data) IN
       /\ ~IsError(p)
       /\ p.phone.fmt # "text"
  /\ resp' = [code |-> 500, id |-> 0]
  /\ UNCHANGED <<regs, clock, queue, cyc, beat, last, disp>>

\* ---- the clock ----------------------------------------------------------
\* The clock moves on by one slot.  An execution of check_and_send_reminders
\* is short against one slot: the clock moves between executions.
Advance ==
  /\ clock < MaxInstant
  /\ \A w \in Workers : cyc[w].pc = "idle"
  /\ clock' = clock + 1
  /\ last' = NoLast
  /\ UNCHANGED <<regs, resp, queue, cyc, disp>>

\* ---- check_and_send_reminders -------------------------------------------
\* Variant of the query used to test the claims: Registration.query with no
\* filter, every row is visited.
FetchAll(table, now) == {i \in 1..Len(table) : TRUE}

\* Registration.query.filter(Registration.webinar_dt >= now): the ids of the
\* rows the loop will visit.
Fetch(table, now) == {i \in 1..Len(table) : table[i].webinar_dt >= now}

days_out(reg, today) == Date(reg.webinar_dt) - today

\* The result of one pass through the loop body for one row: the exception
\* that left it ("none" when it ran to its end), the messages handed to
\* send_whatsapp_reminder.delay, and the row as the session now holds it.
Raise(e, reg) == [raised |-> e, sends |-> <<>>, reg |-> reg]

\* send_whatsapp_reminder.delay(reg.phone, wd, wt, reg.name, n) followed by
\* reg.sent_Nd = True; when the broker does not take the message, delay
\* raises and the assignment is not reached.
SendAndMark(reg, wd, wt, n, brokerUp) ==
  IF brokerUp
  THEN [raised |-> "none",
        sends |-> <<[id |-> reg.id, phone |-> reg.phone,
                     wd |-> DateObj(wd), wt |-> TimeObj(wt),
                     name |-> reg.name, days_left |-> n]>>,
        reg |-> [reg EXCEPT ![FlagOf(n)] = TRUE]]
  ELSE Raise("OperationalError", reg)

\* Lines 98-116: the if/elif chain on days_out and the flags.
Branches(reg, today, wd, wt, brokerUp) ==
  LET d == days_out(reg, today) IN
    IF d = 3 /\ ~reg.sent_3d THEN SendAndMark(reg, wd, wt, 3, brokerUp)
    ELSE IF d = 2 /\ ~reg.sent_2d THEN SendAndMark(reg, wd, wt, 2, brokerUp)
    ELSE IF d = 1 /\ ~reg.sent_1d THEN SendAndMark(reg, wd, wt, 1, brokerUp)
    ELSE [raised |-> "none", sends |-> <<>>, reg |-> reg]

\* Variant of the loop body used to test the claims: wd and wt are taken from
\* the stored reg.webinar_dt and the branches look at days_out alone, not at
\* the flags.
LoopBodyNoFlagCheck(reg, today, brokerUp) ==
  LET d == days_out(reg, today) IN
    IF d \in Boundaries
    THEN SendAndMark(reg, Date(reg.webinar_dt), TimeOf(reg.webinar_dt), d, brokerUp)
    ELSE [raised |-> "none", sends |-> <<>>, reg |-> reg]

\* Variant of the loop body used to test the claims: wd and wt are taken from
\* the stored reg.webinar_dt and the chain is three separate ifs on
\* days_out <= N, so that more than one branch can run for a row.
LoopBodyFallThrough(reg, today, brokerUp) ==
  LET d == days_out(reg, today)
      wd == Date(reg.webinar_dt)
      wt == TimeOf(reg.webinar_dt)
      r3 == IF d <= 3 /\ ~reg.sent_3d THEN SendAndMark(reg, wd, wt, 3, brokerUp)
            ELSE [raised |-> "none", sends |-> <<>>, reg |-> reg]
      r2 == IF r3.raised = "none" /\ d <= 2 /\ ~r3.reg.sent_2d
            THEN SendAndMark(r3.reg, wd, wt, 2, brokerUp)
            ELSE [raised |-> r3.raised, sends |-> <<>>, reg |-> r3.reg]
  IN  [raised |-> r2.raised, sends |-> r3.sends \o r2.sends, reg |-> r2.reg]

\* Variant of the loop body used to test the claims: wd and wt are taken from
\* the stored reg.webinar_dt, the flag is set before delay is called, and an
\* exception of delay is caught inside the loop.
LoopBodyMarkFirst(reg, today, brokerUp) ==
  LET d == days_out(reg, today) IN
    IF d \in Boundaries /\ ~reg[FlagOf(d)]
    THEN LET r == SendAndMark(reg, Date(reg.webinar_dt), TimeOf(reg.webinar_dt),
                              d, brokerUp)
         IN  [raised |-> "none", sends |-> r.sends,
              reg |-> [reg EXCEPT ![FlagOf(d)] = TRUE]]
    ELSE [raised |-> "none", sends |-> <<>>, reg |-> reg]

\* Variant of the loop body used to test the claims: wd and wt are taken from
\* the stored reg.webinar_dt and the chain catches up on missed boundaries,
\* nearest first: days_out <= 1, else days_out <= 2, else days_out <= 3.
LoopBodyCatchUp(reg, today, brokerUp) ==
  LET d == days_out(reg, today)
      wd == Date(reg.webinar_dt)
      wt == TimeOf(reg.webinar_dt)
  IN  IF d <= 1 /\ ~reg.sent_1d THEN SendAndMark(reg, wd, wt, 1, brokerUp)
      ELSE IF d <= 2 /\ ~reg.sent_2d THEN SendAndMark(reg, wd, wt, 2, brokerUp)
      ELSE IF d <= 3 /\ ~reg.sent_3d THEN SendAndMark(reg, wd, wt, 3, brokerUp)
      ELSE [raised |-> "none", sends |-> <<>>, reg |-> reg]

\* Lines 95-116 for one row.  Line 95 reads reg.webinar_date, which is not a
\* column of Registration: the attribute lookup raises AttributeError.  Were
\* the attribute there, one text cannot be in both formats, so one of the two
\* strptime calls raises ValueError.
LoopBody(reg, today, brokerUp) ==
  IF ~HasAttr(reg, "webinar_date") THEN Raise("AttributeError", reg)
  ELSE LET wd == strptime(reg.webinar_date, DateFmt)
           wt == strptime(reg.webinar_date, TimeFmt)
       IN  IF IsError(wd) \/ IsError(wt) THEN Raise("ValueError", reg)
           ELSE Branches(reg, today, wd.val, wt.val, brokerUp)

\* Lines 91-94: take now and today, run the query, load the rows into the
\* session of this task execution.
CycleStart(w) ==
  /\ cyc[w].pc = "idle"
  /\ LET ids == Fetch(regs, clock) IN
       cyc' = [cyc EXCEPT ![w] =
                 [pc |-> "loop", now |-> clock, today |-> Date(clock),
                  todo |-> ids,
                  loaded |-> [i \in ids |-> regs[i]],
                  session |-> [i \in ids |-> regs[i]],
                  seen |-> {}, sends |-> <<>>]]
  /\ UNCHANGED <<regs, clock, resp, queue, last, disp>>

\* The (row, boundary) pairs whose flag the session of c has set since it
\* loaded the row.
Marked(c) ==
  {<<i, b>> \in (DOMAIN c.session) \X Boundaries :
     c.session[i][FlagOf(b)] /\ ~c.loaded[i][FlagOf(b)]}

Summary(c, outcome, seen) ==
  [outcome |-> outcome, seen |-> seen,
   lost |-> IF outcome = "ok" THEN {} ELSE Marked(c),
   runs |-> IF last.outcome # "none" THEN 2 ELSE 1]

\* Variant of the iteration used to test the claims: an exception handler
\* that sets the three flags of the row that raised, in the table, so that
\* the row is not tried again.
CycleStepMarkFailing(w) ==
  /\ cyc[w].pc = "loop"
  /\ Len(queue) < MaxQueue
  /\ \E id \in cyc[w].todo, brokerUp \in BOOLEAN :
       LET c == cyc[w]
           out == LoopBody(c.session[id], c.today, brokerUp)
       IN  /\ queue' = queue \o out.sends
           /\ IF out.raised # "none"
              THEN /\ last' = Summary(c, out.raised, c.seen \cup {id})
                   /\ cyc' = [cyc EXCEPT ![w] = IdleCyc]
                   /\ regs' = [regs EXCEPT ![id].sent_3d = TRUE,
                                           ![id].sent_2d = TRUE,
                                           ![id].sent_1d = TRUE]
              ELSE /\ last' = last
                   /\ cyc' = [cyc EXCEPT ![w] =
                                [c EXCEPT !.todo = c.todo \ {id},
                                          !.session[id] = out.reg,
                                          !.seen = c.seen \cup {id},
                                          !.sends = c.sends \o out.sends]]
                   /\ regs' = regs
  /\ UNCHANGED <<clock, resp, beat, disp>>

\* One iteration of the for loop (the query gives no ORDER BY: any row that
\* is still to visit may come next).  An exception leaves the function: the
\* rest of the rows and the commit are skipped, the session is dropped.
CycleStep(w) ==
  /\ cyc[w].pc = "loop"
  /\ Len(queue) < MaxQueue
  /\ \E id \in cyc[w].todo, brokerUp \in BOOLEAN :
       LET c == cyc[w]
           out == LoopBody(c.session[id], c.today, brokerUp)
       IN  /\ queue' = queue \o out.sends
           /\ IF out.raised # "none"
              THEN /\ last' = Summary(c, out.raised, c.seen \cup {id})
                   /\ cyc' = [cyc EXCEPT ![w] = IdleCyc]
              ELSE /\ last' = last
                   /\ cyc' = [cyc EXCEPT ![w] =
                                [c EXCEPT !.todo = c.todo \ {id},
                                          !.session[id] = out.reg,
                                          !.seen = c.seen \cup {id},
                                          !.sends = c.sends \o out.sends]]
  /\ UNCHANGED <<regs, clock, resp, beat, disp>>

\* Variant of the commit used to test the claims: a clean-up that keeps only
\* the rows whose event is not before the now of the execution.
FlushPurge(table, c) ==
  SelectSeq(table, LAMBDA r : r.webinar_dt >= c.now)

\* The rows as db.session.commit() leaves them: every attribute the session
\* changed since it loaded the row is written, the others are not touched.
Flush(table, c) ==
  [i \in 1..Len(table) |->
     IF i \in DOMAIN c.session
     THEN [f \in DOMAIN table[i] |->
             IF c.session[i][f] # c.loaded[i][f] THEN c.session[i][f]
             ELSE table[i][f]]
     ELSE table[i]]

\* Line 117, reached when the loop has visited every row; the commit may be
\* refused by the database, and then its exception leaves the function.
CycleCommit(w) ==
  /\ cyc[w].pc = "loop"
  /\ cyc[w].todo = {}
  /\ \E ok \in BOOLEAN :
       /\ regs' = IF ok THEN Flush(regs, cyc[w]) ELSE regs
       /\ last' = Summary(cyc[w], IF ok THEN "ok" ELSE "CommitError",
                          cyc[w].seen)
  /\ cyc' = [cyc EXCEPT ![w] = IdleCyc]
  /\ UNCHANGED <<clock, resp, queue, beat, disp>>

AllIdle == \A w \in Workers : cyc[w].pc = "idle"

\* check_and_send_reminders started at any instant, one execution at a time.
Trigger(w) ==
  /\ AllIdle
  /\ CycleStart(w)
  /\ UNCHANGED beat

Tick ==
  /\ Advance
  /\ UNCHANGED beat

Next ==
  \/ \E data \in Requests : Register(data)
  \/ \E data \in Requests : RegisterReject(data)
  \/ \E data \in Requests : RegisterFail(data)
  \/ Tick
  \/ \E w \in Workers : Trigger(w)
  \/ \E w \in Workers : CycleStep(w)
  \/ \E w \in Workers : CycleCommit(w)

Spec == Init /\ [][Next]_vars

\* ---- the beat schedule ---------------------------------------------------
\* beat_schedule 'check-reminders-daily', crontab(hour=0, minute=0): one
\* check_and_send_reminders at the first instant of every day.
BeatTrigger(w) ==
  /\ TimeOf(clock) = 0
  /\ ~beat
  /\ AllIdle
  /\ CycleStart(w)
  /\ beat' = TRUE

\* The clock leaves the first instant of a day after the beat has fired.
TickDaily ==
  /\ TimeOf(clock) = 0 => beat
  /\ Advance
  /\ beat' = FALSE

NextDaily ==
  \/ \E data \in Requests : Register(data)
  \/ \E data \in Requests : RegisterReject(data)
  \/ \E data \in Requests : RegisterFail(data)
  \/ TickDaily
  \/ \E w \in Workers : BeatTrigger(w)
  \/ \E w \in Workers : CycleStep(w)
  \/ \E w \in Workers : CycleCommit(w)

\* The beat fires every day and a started execution runs to its end.
SpecDaily ==
  /\ Init
  /\ [][NextDaily]_vars
  /\ WF_vars(TickDaily)
  /\ WF_vars(\E w \in Workers : BeatTrigger(w))
  /\ WF_vars(\E w \in Workers : CycleStep(w))
  /\ WF_vars(\E w \in Workers : CycleCommit(w))

\* ---- register_webinar on its own -----------------------------------------
\* Requests only: the endpoint serving one POST after another.
NextIntake ==
  \/ \E data \in Requests : Register(data)
  \/ \E data \in Requests : RegisterReject(data)
  \/ \E data \in Requests : RegisterFail(data)

SpecIntake == Init /\ [][NextIntake]_vars

\* ---- overlapping executions ----------------------------------------------
\* check_and_send_reminders started while another execution may be in flight
\* (a second worker, or a trigger that does not wait for the previous run).
TriggerAny(w) ==
  /\ CycleStart(w)
  /\ UNCHANGED beat

NextOverlap ==
  \/ \E data \in Requests : Register(data)
  \/ \E data \in Requests : RegisterReject(data)
  \/ \E data \in Requests : RegisterFail(data)
  \/ Tick
  \/ \E w \in Workers : TriggerAny(w)
  \/ \E w \in Workers : CycleStep(w)
  \/ \E w \in Workers : CycleCommit(w)

SpecOverlap == Init /\ [][NextOverlap]_vars

\* ---- send_whatsapp_reminder ----------------------------------------------
\* value.strftime(fmt): the text of a parsed value in format fmt.
strftime(v, fmt) == [fmt |-> fmt, val |-> v]

\* What requests.post and raise_for_status can come to (lines 82-83).
NetOutcomes == {"ok", "HTTPError", "Timeout"}

\* Lines 67-86 for one message: the outbound calls issued, what is printed,
\* and the exception that leaves the task ("none": except Exception at line
\* 85 takes every one of them).  strptime raises for an argument that is no
\* text in the format; the post is then not reached.
send_whatsapp_reminder(msg, net) ==
  LET wd == strptime(msg.wd, DateFmt)
      wt == IF IsError(wd) THEN wd ELSE strptime(msg.wt, TimeFmt)
  IN  IF IsError(wt)
      THEN [calls |-> <<>>, logged |-> "Error sending reminder", raised |-> "none"]
      ELSE [calls |-> <<[id |-> msg.id,
                         payload |->
                           [phone |-> msg.phone,
                            webinar_date |-> strftime(wd.val, "%d %B %Y"),
                            webinar_time |-> strftime(wt.val, "%I:%M %p"),
                            name |-> msg.name,
                            days_left |-> msg.days_left]]>>,
            logged |-> IF net = "ok" THEN "Reminder sent"
                       ELSE "Error sending reminder",
            raised |-> "none"]

\* The Celery worker runs the next message of the queue.
RunTask ==
  /\ disp.taken < Len(queue)
  /\ \E net \in NetOutcomes :
       LET r == send_whatsapp_reminder(queue[disp.taken + 1], net) IN
         disp' = [taken |-> disp.taken + 1,
                  calls |-> disp.calls \o r.calls,
                  logged |-> r.logged,
                  escaped |-> r.raised # "none"]
  /\ UNCHANGED <<regs, clock, resp, queue, cyc, beat, last>>

\* The arguments a caller can hand to send_whatsapp_reminder.delay: texts in
\* the two formats, and the date and time objects line 103 passes.
TaskArgs ==
  [id : 1..MaxRegs,
   phone : Phones,
   wd : {DateStr(d) : d \in Days} \cup {DateObj(0)},
   wt : {TimeStr(t) : t \in Slots} \cup {TimeObj(0)},
   name : Names,
   days_left : Boundaries]

TaskQueues == UNION {[1..n -> TaskArgs] : n \in 0..MaxTasks}

\* The worker in front of a queue of accepted messages.
InitTask ==
  /\ regs = <<>>
  /\ clock = 0
  /\ resp = NoResp
  /\ queue \in TaskQueues
  /\ cyc = [w \in Workers |-> IdleCyc]
  /\ beat = FALSE
  /\ disp = IdleDisp
  /\ last = NoLast

NextTask == RunTask

SpecTask == InitTask /\ [][NextTask]_vars

\* ---- vocabulary of the properties ---------------------------------------
Flag(reg, b) == reg[FlagOf(b)]
Flags(reg) == [b \in Boundaries |-> reg[FlagOf(b)]]

\* Dispatch calls initiated so far for registration i and boundary b.
NumSentIn(q, i, b) ==
  Cardinality({k \in 1..Len(q) : q[k].id = i /\ q[k].days_left = b})
NumSent(i, b) == NumSentIn(queue, i, b)

\* Execution w of check_and_send_reminders ends in this step.
CycleEnd(w) == cyc[w].pc = "loop" /\ cyc'[w].pc = "idle"

\* The messages execution w has handed to delay, this step included.
CycleSends(w) == cyc[w].sends \o SubSeq(queue', Len(queue) + 1, Len(queue'))

\* Execution w acts in this step, with this value of now.
ActsIn(w) == cyc'[w] # cyc[w]
NowOf(w) == IF cyc[w].pc = "idle" THEN cyc'[w].now ELSE cyc[w].now

OnBoundaryDay(i) == days_out(regs[i], Date(clock)) \in Boundaries

\* ---- C1 -----------------------------------------------------------------
\* C1: at-most-once dispatch.  Over serially executed cycles, with any
\* registrations in between, the number of Dispatch calls initiated for one
\* (registration, boundary) pair never exceeds one.  (Stated for every
\* reachable state, whether or not the commits succeeded.)
AtMostOnceDispatch ==
  \A i \in Ids : \A b \in Boundaries : NumSent(i, b) <= 1

\* Two executions have ended at one instant, and the later one entered the
\* loop body for a registration that is on one of its boundary days.
AtMostOnceWitness ==
  /\ last.runs = 2
  /\ \E i \in last.seen : OnBoundaryDay(i) /\ ~Flag(regs[i], days_out(regs[i], Date(clock)))


\* ---- C2 -----------------------------------------------------------------
\* C2: a registration whose event is exactly N days after now, N in {3, 2, 1},
\* with the flag for N unset: one cycle initiates exactly one Dispatch for
\* it, with days_left = N, and after the cycle that flag is set and the other
\* two flags are as they were.  (Stated for cycles whose enqueue and commit
\* were not refused by the broker or the database.)
ExactlyOneDispatchOnBoundary ==
  [][\A w \in Workers :
       (CycleEnd(w) /\ last'.outcome \notin {"CommitError", "OperationalError"}) =>
         \A i \in DOMAIN cyc[w].loaded : \A n \in Boundaries :
           LET old == cyc[w].loaded[i]
               mine == {k \in 1..Len(CycleSends(w)) : CycleSends(w)[k].id = i}
           IN  (old.webinar_dt = cyc[w].now + n * SlotsPerDay /\ ~Flag(old, n)) =>
                 /\ Flag(regs'[i], n)
                 /\ \A b \in Boundaries \ {n} : Flag(regs'[i], b) = Flag(old, b)
                 /\ Cardinality(mine) = 1
                 /\ \A k \in mine : CycleSends(w)[k].days_left = n]_vars

\* ---- C3 -----------------------------------------------------------------
\* C3: with the beat firing on every calendar day, a registration that is
\* there before the beat of the day three days ahead of its event has, by
\* the time the event has passed, exactly one Dispatch initiated for each of
\* the boundaries 3, 2 and 1 and its three flags set.
EveryLeadTimeNotified ==
  \A i \in 1..MaxRegs :
    [](( /\ i \in Ids
         /\ days_out(regs[i], Date(clock)) = 3
         /\ TimeOf(clock) = 0
         /\ ~beat )
       => []( (i \in Ids /\ regs[i].webinar_dt < clock) =>
                \A b \in Boundaries : Flag(regs[i], b) /\ NumSent(i, b) = 1 ))

\* ---- C4 -----------------------------------------------------------------
\* C4: idempotence across cycles.  Once the flag of a boundary is set, no
\* later step initiates a Dispatch for that boundary; and when an execution
\* has ended at this instant, whatever runs next at the same instant
\* initiates no Dispatch for the registrations that execution went through
\* and leaves their flags as they are.
Idempotence ==
  [][ /\ \A i \in Ids : \A b \in Boundaries :
           Flag(regs[i], b) => NumSentIn(queue', i, b) = NumSent(i, b)
      /\ \A i \in last.seen :
           /\ Flags(regs'[i]) = Flags(regs[i])
           /\ \A b \in Boundaries : NumSentIn(queue', i, b) = NumSent(i, b) ]_vars

\* A second execution has ended at the instant of the first, and it entered
\* the loop body for a registration three days ahead of its event.
IdempotenceWitness ==
  /\ last.runs = 2
  /\ \E i \in last.seen : days_out(regs[i], Date(clock)) = 3

\* ---- C5 -----------------------------------------------------------------
\* C5: PENDING -> SENT only.  A persisted flag that is set is never unset
\* again, and the three flags of a registration are unset when it is created.
FlagsOnlyRise ==
  [][ /\ \A i \in Ids : \A b \in Boundaries :
           Flag(regs[i], b) => Flag(regs'[i], b)
      /\ \A i \in (1..Len(regs')) \ Ids : \A b \in Boundaries :
           ~Flag(regs'[i], b) ]_vars

\* A registration has been created, and an execution has gone through it on
\* one of its boundary days and ended.
FlagsOnlyRiseWitness ==
  /\ resp.code = 201
  /\ \E i \in last.seen : OnBoundaryDay(i) /\ last.outcome # "none"

\* ---- C6 -----------------------------------------------------------------
\* C6: between cycles, the persisted flag of a (registration, boundary) pair
\* is set exactly when at least one Dispatch has been initiated for the pair.
FlagIffDispatched ==
  AllIdle =>
    \A i \in Ids : \A b \in Boundaries :
      Flag(regs[i], b) <=> NumSent(i, b) >= 1

\* Between cycles, after an execution that entered the loop body for a
\* registration on a boundary day whose flag is unset.
FlagIffDispatchedWitness ==
  /\ AllIdle
  /\ \E i \in last.seen : \E b \in Boundaries :
       days_out(regs[i], Date(clock)) = b /\ ~Flag(regs[i], b) /\ NumSent(i, b) = 0

\* ---- C7 -----------------------------------------------------------------
\* C7: failure isolation inside a cycle.  An exception while one
\* registration's reminder is prepared or enqueued does not end the cycle:
\* an execution ends only at its commit, after the loop has gone through
\* every registration it fetched, and with the flag of each registration it
\* dispatched for marked.
FailureIsolation ==
  [][\A w \in Workers :
       CycleEnd(w) =>
         /\ cyc[w].todo = {}
         /\ cyc[w].seen = DOMAIN cyc[w].loaded
         /\ last'.outcome \in {"ok", "CommitError"}]_vars

\* ---- C8 -----------------------------------------------------------------
\* C8: a failing outbound call neither rolls back nor escapes.  Whatever
\* becomes of the outbound calls, no exception leaves an execution of the
\* cycle whose enqueues the broker and whose commit the database accept: it
\* ends normally, and the flag of every boundary it hit or marked is set in
\* the table (Scenario D).
NothingEscapesTheCycle ==
  [][\A w \in Workers :
       (CycleEnd(w) /\ last'.outcome \notin {"CommitError", "OperationalError"}) =>
         /\ last'.outcome = "ok"
         /\ \A i \in DOMAIN cyc[w].session : \A b \in Boundaries :
              \/ Flag(cyc[w].session[i], b)
              \/ (days_out(cyc[w].loaded[i], cyc[w].today) = b)
              => Flag(regs'[i], b)]_vars

\* ---- C9 -----------------------------------------------------------------
\* C9: past events are frozen.  In every step of an execution of the cycle,
\* a registration whose webinar_dt is earlier than the execution's now is not
\* loaded, is not gone through by the loop, keeps every field, and gets no
\* Dispatch.
PastEventsFrozen ==
  [][\A w \in Workers : \A i \in Ids :
       (ActsIn(w) /\ regs[i].webinar_dt < NowOf(w)) =>
         /\ regs'[i] = regs[i]
         /\ i \notin DOMAIN cyc'[w].session
         /\ i \notin cyc'[w].todo \cup cyc'[w].seen
         /\ (CycleEnd(w) => i \notin last'.seen)
         /\ \A b \in Boundaries : NumSentIn(queue', i, b) = NumSent(i, b)]_vars

\* An execution has ended at this instant after entering the loop body for
\* registration j, while an older registration i had its event in the past.
PastEventsFrozenWitness ==
  \E j \in last.seen : \E i \in 1..(j - 1) :
    /\ regs[i].webinar_dt < clock
    /\ i \notin last.seen

\* ---- C10 ----------------------------------------------------------------
\* C10: boundary disjointness.  One execution of the cycle initiates at most
\* one Dispatch per registration and changes at most one of its three flags,
\* in its session and in the table.
BoundaryDisjointness ==
  /\ [](\A w \in Workers : \A i \in DOMAIN cyc[w].session :
          /\ Cardinality({k \in 1..Len(cyc[w].sends) : cyc[w].sends[k].id = i}) <= 1
          /\ Cardinality({b \in Boundaries :
                Flag(cyc[w].session[i], b) # Flag(cyc[w].loaded[i], b)}) <= 1)
  /\ [][\A i \in Ids :
          Cardinality({b \in Boundaries : Flag(regs'[i], b) # Flag(regs[i], b)}) <= 1]_vars

\* An execution has ended after entering the loop body for a registration
\* that is one or two days ahead of its event, where days_out <= 3 holds too.
BoundaryDisjointnessWitness ==
  /\ last.outcome # "none"
  /\ \E i \in last.seen : days_out(regs[i], Date(clock)) \in {1, 2}

IntakeAllOrNothing ==
  [][\A data \in Requests :
       (Register(data) \/ RegisterReject(data) \/ RegisterFail(data)) =>
         LET parses == /\ data.webinar_date.fmt = DateFmt
                       /\ data.webinar_time.fmt = TimeFmt
         IN  /\ queue' = queue
             /\ Len(regs') >= Len(regs)
             /\ SubSeq(regs', 1, Len(regs)) = regs
             /\ (Len(regs') > Len(regs)) <=> (resp'.code = 201)
             /\ (parses /\ data.phone.fmt = "text") =>
                   /\ Len(regs') = Len(regs) + 1
                   /\ LET new == regs'[Len(regs')] IN
                        /\ \A i \in Ids : regs[i].id # new.id
                        /\ \A b \in Boundaries : ~Flag(new, b)
                        /\ new.phone = data.phone.val
                        /\ new.webinar_dt =
                             combine(data.webinar_date.val, data.webinar_time.val)
                        /\ resp' = [code |-> 201, id |-> new.id]
             /\ (~parses \/ IsAbsent(data.phone)) =>
                   /\ resp'.code \in 400..499
                   /\ regs' = regs ]_vars

\* A request has been accepted while another Registration was there, and the
\* answer carries the id of the new row.
IntakeWitness ==
  /\ Len(regs) = 2
  /\ resp = [code |-> 201, id |-> 2]
  /\ regs[2].id = 2

\* ---- C13 ----------------------------------------------------------------
\* Outbound calls issued so far for registration i and boundary b.
NumCallsIn(cs, i, b) ==
  Cardinality({k \in 1..Len(cs) : cs[k].id = i /\ cs[k].payload.days_left = b})

Identity(reg) == <<reg.id, reg.phone, reg.webinar_dt, reg.name>>

\* C14: registrations are independent.  No step of an execution of the cycle
\* adds or removes a row or changes the id, phone, webinar_dt or name of one;
\* a pass through the loop body changes, in the session, the row it is made
\* for and no other; and the flags of a row change in the table only for a
\* row the loop has gone through, to the flags the session holds for it.
RegistrationsIndependent ==
  [][\A w \in Workers :
       ActsIn(w) =>
         /\ Len(regs') = Len(regs)
         /\ \A i \in Ids :
              /\ Identity(regs'[i]) = Identity(regs[i])
              /\ Flags(regs'[i]) # Flags(regs[i]) =>
                   /\ i \in cyc[w].seen
                   /\ Flags(regs'[i]) = Flags(cyc[w].session[i])
         /\ (cyc[w].pc = "loop" /\ cyc'[w].pc = "loop") =>
              \A i \in DOMAIN cyc[w].session :
                /\ Identity(cyc'[w].session[i]) = Identity(cyc[w].session[i])
                /\ cyc'[w].session[i] # cyc[w].session[i] =>
                     i \in cyc[w].todo \ cyc'[w].todo ]_vars

\* An execution has ended after entering the loop body for one of two
\* registrations with the same phone and the same webinar_dt.
RegistrationsIndependentWitness ==
  /\ last.outcome # "none"
  /\ \E i \in last.seen : \E j \in Ids \ {i} :
       /\ regs[i].phone = regs[j].phone
       /\ regs[i].webinar_dt = regs[j].webinar_dt

\* ---- C15 ----------------------------------------------------------------
\* Execution w goes through row i in this step, and the broker does not
\* refuse a message.
Passes(w, i) ==
  /\ cyc[w].pc = "loop"
  /\ i \in cyc[w].todo
  /\ \/ cyc'[w].pc = "loop" /\ i \notin cyc'[w].todo
     \/ CycleEnd(w) /\ i \in last'.seen /\ last'.outcome # "OperationalError"

\* C15: the decision rule of the evaluator.  When an execution goes through
\* a registration, it initiates a Dispatch for boundary b exactly when the
\* calendar date of webinar_dt is b days after the execution's today and the
\* flag of b is unset as the execution holds it; in particular nothing is
\* initiated when days_out is 0, negative or above 3, or when the flag of the
\* matching boundary is set, whatever the other flags are.
EvaluatorDecisionRule ==
  [][\A w \in Workers : \A i \in cyc[w].todo :
       Passes(w, i) =>
         \A b \in Boundaries :
           LET reg == cyc[w].session[i]
               hit == days_out(reg, cyc[w].today) = b /\ ~Flag(reg, b)
           IN  NumSentIn(queue', i, b) =
                 NumSent(i, b) + (IF hit THEN 1 ELSE 0) ]_vars

\* ---- C16 ----------------------------------------------------------------
\* C16: the order of dispatch, flag and commit.  A flag an execution holds
\* set in its session, and had loaded unset, has its message in the queue
\* already; the flags of the table rise only in the commit of an execution
\* that has gone through every row it fetched, all the flags of that
\* execution in the one step, whatever the worker of the outbound calls has
\* done by then; and a flag is set in the table only for a pair that has a
\* message in the queue.
DispatchThenFlagThenCommit ==
  /\ [](\A w \in Workers : \A p \in Marked(cyc[w]) :
          NumSentIn(cyc[w].sends, p[1], p[2]) >= 1)
  /\ [](\A i \in Ids : \A b \in Boundaries :
          Flag(regs[i], b) => NumSent(i, b) >= 1)
  /\ [][\A i \in Ids : \A b \in Boundaries :
          (Flag(regs'[i], b) /\ ~Flag(regs[i], b)) =>
            \E w \in Workers :
              /\ CycleEnd(w)
              /\ cyc[w].todo = {}
              /\ cyc[w].seen = DOMAIN cyc[w].loaded
              /\ last'.outcome = "ok"
              /\ <<i, b>> \in Marked(cyc[w])
              /\ \A p \in Marked(cyc[w]) : Flag(regs'[p[1]], p[2])
              /\ disp' = disp ]_vars

\* An execution that entered the loop body for a registration on a boundary
\* day has ended without a commit: no message, no flag, nothing left marked.
DispatchThenFlagThenCommitWitness ==
  /\ last.outcome \notin {"none", "ok", "CommitError"}
  /\ last.lost = {}
  /\ \E i \in last.seen :
       /\ OnBoundaryDay(i)
       /\ \A b \in Boundaries : ~Flag(regs[i], b) /\ NumSent(i, b) = 0

\* ---- C17 ----------------------------------------------------------------
\* C17: overlapping executions race.  While two executions are in flight
\* that both loaded registration i with the flag of b unset, on the day
\* days_out is b, each of them initiates its own Dispatch when it goes
\* through i, whatever the other one has queued: the pair ends up with two
\* dispatches.
OverlapRace ==
  [][\A w \in Workers : \A i \in cyc[w].todo : \A b \in Boundaries :
       ( /\ Passes(w, i)
         /\ days_out(cyc[w].session[i], cyc[w].today) = b
         /\ ~Flag(cyc[w].session[i], b)
         /\ \E v \in Workers \ {w} :
              /\ i \in DOMAIN cyc[v].loaded
              /\ ~Flag(cyc[v].loaded[i], b)
              /\ cyc[v].today = cyc[w].today )
       => NumSentIn(queue', i, b) = NumSent(i, b) + 1 ]_vars

\* ---- C18 ----------------------------------------------------------------
\* C18: an aborted execution persists nothing, and its dispatches stand.
\* When an exception ends an execution before its commit, every row of the
\* table is what the execution loaded, and the messages it had queued for
\* the rows it went through before are still in the queue; messages are
\* never taken back from the queue; and the execution that runs to its end
\* next, at the same instant, initiates one Dispatch for each pair the
\* aborted one had marked.
AbortPersistsNothing ==
  /\ [](\A w \in Workers :
          cyc[w].pc = "loop" =>
            /\ Len(cyc[w].sends) <= Len(queue)
            /\ cyc[w].sends =
                 SubSeq(queue, Len(queue) - Len(cyc[w].sends) + 1, Len(queue)))
  /\ [][ /\ Len(queue') >= Len(queue)
         /\ SubSeq(queue', 1, Len(queue)) = queue
         /\ \A w \in Workers :
              (CycleEnd(w) /\ last'.outcome \notin {"ok", "CommitError"}) =>
                /\ regs' = regs
                /\ \A i \in DOMAIN cyc[w].loaded : regs'[i] = cyc[w].loaded[i]
                /\ last'.lost = Marked(cyc[w])
         /\ \A w \in Workers :
              ( /\ CycleEnd(w)
                /\ last.outcome \notin {"none", "ok", "CommitError"}
                /\ last'.outcome = "ok" ) =>
                \A p \in last.lost : NumSentIn(CycleSends(w), p[1], p[2]) = 1 ]_vars

\* An exception has ended an execution in the loop body of a registration on
\* a boundary day, after another execution had ended at the same instant.
AbortPersistsNothingWitness ==
  /\ last.outcome = "AttributeError"
  /\ last.runs = 2
  /\ \E i \in last.seen : OnBoundaryDay(i)

\* ---- C19 ----------------------------------------------------------------
\* C19: no catch-up for a missed boundary.  A Dispatch for boundary b is
\* initiated, and the flag of b rises, only on the calendar day on which
\* days_out equals b; once that day is behind (or was never there, for a
\* registration created later), a flag of b that is unset stays unset and the
\* number of Dispatches for the pair stays what it is.
NoCatchUp ==
  [][\A i \in Ids : \A b \in Boundaries :
       /\ ( \/ NumSentIn(queue', i, b) # NumSent(i, b)
            \/ Flag(regs'[i], b) # Flag(regs[i], b) )
          => days_out(regs[i], Date(clock)) = b
       /\ days_out(regs[i], Date(clock)) < b =>
            /\ days_out(regs'[i], Date(clock')) < b
            /\ ~Flag(regs[i], b) => ~Flag(regs'[i], b)
            /\ NumSentIn(queue', i, b) = NumSent(i, b) ]_vars

\* A registration whose event is less than three days after the first day,
\* so that days_out was never 3 for it, has been gone through by an
\* execution on a later boundary day; its 3-day flag is unset and no 3-day
\* Dispatch exists.
NoCatchUpWitness ==
  \E i \in last.seen :
    /\ Date(regs[i].webinar_dt) < 3
    /\ OnBoundaryDay(i)
    /\ ~Flag(regs[i], 3)
    /\ NumSent(i, 3) = 0

\* ---- C20 ----------------------------------------------------------------
\* C20: reminders go out in decreasing lead-time order.  With executions
\* one at a time and a clock that does not go back: once the flag of a
\* boundary b is set, or a Dispatch for b has been initiated, or the day of b
\* has come, no Dispatch is initiated for a larger boundary and an unset flag
\* of a larger boundary stays unset.
DecreasingLeadTime ==
  [][ /\ clock' >= clock
      /\ \A i \in Ids : \A b \in Boundaries : \A c \in Boundaries :
           ( /\ c > b
             /\ \/ Flag(regs[i], b)
                \/ NumSent(i, b) >= 1
                \/ days_out(regs[i], Date(clock)) <= b )
           => /\ NumSentIn(queue', i, c) = NumSent(i, c)
              /\ ~Flag(regs[i], c) => ~Flag(regs'[i], c) ]_vars

\* An execution has gone through a registration on the day of its 1-day
\* boundary, with the flags of the larger boundaries unset, and a second
\* execution has ended at that instant.
DecreasingLeadTimeWitness ==
  /\ last.runs = 2
  /\ \E i \in last.seen :
       /\ days_out(regs[i], Date(clock)) = 1
       /\ ~Flag(regs[i], 2) /\ ~Flag(regs[i], 3)
       /\ NumSent(i, 2) = 0 /\ NumSent(i, 3) = 0

====
